---- MODULE Spec2Model ----
(***************************************************************************)
(* Model of archive/analysis-scripts/analyze_bench_patterns.py:            *)
(* BenchPatternAnalyzer.run_full_analysis and the methods it calls.        *)
(*                                                                         *)
(* Numbers.  The script computes with floats.  Here every real quantity is *)
(* a fixed-point integer, rounded down:                                    *)
(*   - a coordinate is an integer number of grid units, CoordUnit grid     *)
(*     units to the degree;                                                *)
(*   - a length in degree-space is counted in 1/FP of a grid unit;         *)
(*   - a length in meters is counted in 1/FP of a meter;                   *)
(*   - a ratio is counted in 1/FP;                                         *)
(*   - a confidence is counted in percent.                                 *)
(* Values produced by numpy carry the tag "np" and their dtype in the      *)
(* results tree, plain Python numbers the tag "py" and their type (see     *)
(* Results, convert_numpy_types and JsonDump).                             *)
(***************************************************************************)
EXTENDS Integers, Sequences, FiniteSets, TLC

\* ---------------------------------------------------------------- bounds
MaxClusters == 2      \* manual clusters in the clusters file
FP == 100             \* fixed-point denominator
CoordUnit == 100000   \* grid units per degree

\* ------------------------------------------------------ program constants
DegToMeters == 111000
TolerancePct == 2
StdFactor == 2
SevenPoint == 7
ConfSevenPoint == 98
ConfOtherPoint == 95
TwoComponent == 2
ConfTwoComponent == 90
ConfOtherComponent == 85

\* ------------------------------------------------------------- arithmetic
Min2(a, b) == IF a <= b THEN a ELSE b
Max2(a, b) == IF a >= b THEN a ELSE b

RECURSIVE SumSeq(_)
SumSeq(s) == IF s = <<>> THEN 0 ELSE Head(s) + SumSeq(Tail(s))

RECURSIVE MinSeq(_)
MinSeq(s) == IF Len(s) = 1 THEN s[1] ELSE Min2(Head(s), MinSeq(Tail(s)))

RECURSIVE MaxSeq(_)
MaxSeq(s) == IF Len(s) = 1 THEN s[1] ELSE Max2(Head(s), MaxSeq(Tail(s)))

RECURSIVE SqrtSearch(_, _, _)
SqrtSearch(n, lo, hi) ==
    IF lo >= hi THEN lo
    ELSE LET mid == (lo + hi + 1) \div 2
         IN  IF mid * mid <= n THEN SqrtSearch(n, mid, hi)
                               ELSE SqrtSearch(n, lo, mid - 1)

\* floor of the square root
ISqrt(n) == SqrtSearch(n, 0, Min2(n, 46340))

\* np.mean, np.std (population standard deviation), np.min, np.max of a
\* non-empty sequence of fixed-point values
Mean(s) == SumSeq(s) \div Len(s)
SumSq(s) == SumSeq([i \in 1..Len(s) |-> s[i] * s[i]])
Std(s) == ISqrt(Len(s) * SumSq(s) - SumSeq(s) * SumSeq(s)) \div Len(s)

\* x * 111000: a degree-space length (1/FP grid units) in meters (1/FP m)
ToMeters(v) == (v * DegToMeters) \div CoordUnit

\* --------------------------------------------------------------- geometry
\* a point is <<x, y>> in grid units; a polyline is a sequence of points
SegLen(p, q) ==
    ISqrt(((q[1] - p[1]) * (q[1] - p[1]) + (q[2] - p[2]) * (q[2] - p[2])) * FP * FP)

SegLens(coords) == [i \in 1..(Len(coords) - 1) |-> SegLen(coords[i], coords[i + 1])]

\* LineString.length
GeomLength(coords) == SumSeq(SegLens(coords))

\* LineString.bounds = (minx, miny, maxx, maxy)
Bounds(coords) ==
    LET xs == [i \in 1..Len(coords) |-> coords[i][1]]
        ys == [i \in 1..Len(coords) |-> coords[i][2]]
    IN  <<MinSeq(xs), MinSeq(ys), MaxSeq(xs), MaxSeq(ys)>>

\* LineString.centroid, in 1/FP grid units: the length-weighted mean of the
\* segment midpoints; the first point when the line has zero length
Centroid(coords) ==
    LET ls == SegLens(coords)
        total == SumSeq(ls)
        wx == SumSeq([i \in 1..Len(ls) |-> ls[i] * (coords[i][1] + coords[i + 1][1]) * FP])
        wy == SumSeq([i \in 1..Len(ls) |-> ls[i] * (coords[i][2] + coords[i + 1][2]) * FP])
    IN  IF total = 0 THEN <<coords[1][1] * FP, coords[1][2] * FP>>
        ELSE <<wx \div (2 * total), wy \div (2 * total)>>

\* scipy pdist: the Euclidean distances of all pairs i < j of a point list
PairDist(p, q) ==
    ISqrt((q[1] - p[1]) * (q[1] - p[1]) + (q[2] - p[2]) * (q[2] - p[2]))

RECURSIVE PdistFrom(_, _, _)
PdistFrom(pts, i, j) ==
    IF i >= Len(pts) THEN <<>>
    ELSE IF j > Len(pts) THEN PdistFrom(pts, i + 1, i + 2)
    ELSE <<PairDist(pts[i], pts[j])>> \o PdistFrom(pts, i, j + 1)

pdist(pts) == PdistFrom(pts, 1, 2)

\* ----------------------------------------------------------------- inputs
\* the objectids that occur in the two files
Ids == {1, 2, 3}

\* geo_shape.geometry.coordinates of a raw record: a two-point seat edge, a
\* two-point diagonal, a degenerate two-point line, a closed five-point frame
ShapeCatalog ==
    << << <<0, 0>>, <<2, 0>> >>,
       << <<0, 1>>, <<1, 2>> >>,
       << <<1, 1>>, <<1, 1>> >>,
       << <<0, 0>>, <<2, 0>>, <<2, 1>>, <<0, 1>>, <<0, 0>> >> >>

\* the shape of objectid i in the layout-th dataset
ShapeAt(layout, i) == ShapeCatalog[((i + layout) % Len(ShapeCatalog)) + 1]

\* the raw dataset: the records of the objectids in present, in file order;
\* an objectid occurs at most once
RECURSIVE RawRecords(_, _, _)
RawRecords(present, layout, i) ==
    IF \A j \in present : j < i THEN <<>>
    ELSE (IF i \in present
          THEN << [objectid |-> i, geo_shape |-> ShapeAt(layout, i)] >>
          ELSE <<>>)
         \o RawRecords(present, layout, i + 1)

RawFiles ==
    { RawRecords(present, layout, 1) :
        present \in SUBSET Ids, layout \in 1..Len(ShapeCatalog) }

\* a manual cluster lists one id, or two distinct ids in either order; the
\* clusters of a type other than 'benches' list one id
ComponentIdLists == { <<i>> : i \in Ids } \cup { p \in Ids \X Ids : p[1] # p[2] }

ClusterChoices ==
    ({"benches"} \X ComponentIdLists) \cup ({"planters"} \X { <<i>> : i \in Ids })

ManualCluster(i, choice) ==
    [id |-> i,
     type |-> choice[1],
     component_ids |-> choice[2],
     component_count |-> Len(choice[2]),
     total_length |-> 250 * Len(choice[2]),
     arrondissement |-> 10 + i,
     confidence |-> 100]

ClusterFiles ==
    UNION { { [i \in 1..n |-> ManualCluster(i, f[i])] : f \in [1..n -> ClusterChoices] }
            : n \in 0..MaxClusters }

\* ------------------------------------------------------------------ state
VARIABLES
    pc,                 \* position in run_full_analysis
    raw_file,           \* content of the raw dataset file
    clusters_file,      \* content of the manual clusters file
    io_failure,         \* which input file cannot be opened or parsed
    detection_results_path,  \* argument of validate_against_current_detection
    detection_file,     \* content of the detection results file
    raw_list,           \* the records json.load returned for the raw file
    manual_clusters,    \* self.manual_clusters
    raw_data,           \* self.raw_data (DataFrame)
    bench_components,   \* self.bench_components (DataFrame)
    pattern_analysis,   \* locals of run_full_analysis
    spatial_analysis,
    canonical_dims,
    validation_patterns,
    detection_rules,
    results_clean,
    output_file,        \* content of bench_pattern_analysis_results.json
    hash_seed,          \* the salt of str hashes of the running interpreter
    run,                \* 1 in the first run on the two files, 2 in the second
    first_run           \* what the first run ended with, once it is over

vars == <<pc, raw_file, clusters_file, io_failure, detection_results_path,
          detection_file, raw_list, manual_clusters, raw_data,
          bench_components, pattern_analysis, spatial_analysis, canonical_dims,
          validation_patterns, detection_rules, results_clean, output_file,
          hash_seed, run, first_run>>

None == "None"

\* what the run reads and never writes
inputs == <<raw_file, clusters_file, io_failure, detection_results_path, detection_file>>

\* the interpreter the run is in, and the run before it
process == <<hash_seed, run, first_run>>

\* CPython draws the salt of its str and bytes hashes when the interpreter
\* starts (PYTHONHASHSEED unset), so two interpreters differ in it
HashSeeds == {0, 1}

\* open() raises on a missing file and json.load on a malformed one; an
\* unreadable file has no records
IoFailures ==
    {"none", "clusters_missing", "clusters_malformed", "raw_missing", "raw_malformed"}
ClustersUnreadable == {"clusters_missing", "clusters_malformed"}
RawUnreadable == {"raw_missing", "raw_malformed"}

\* BenchPatternAnalyzer.__init__: nothing is loaded.  run_full_analysis
\* calls validate_against_current_detection without a path.
Init ==
    /\ pc = "start"
    /\ io_failure \in IoFailures
    /\ raw_file \in (IF io_failure \in RawUnreadable THEN {<<>>} ELSE RawFiles)
    /\ clusters_file \in (IF io_failure \in ClustersUnreadable THEN {<<>>} ELSE ClusterFiles)
    /\ detection_results_path = None
    /\ detection_file = <<>>
    /\ raw_list = None
    /\ manual_clusters = None
    /\ raw_data = None
    /\ bench_components = None
    /\ pattern_analysis = None
    /\ spatial_analysis = None
    /\ canonical_dims = None
    /\ validation_patterns = None
    /\ detection_rules = None
    /\ results_clean = None
    /\ output_file = None
    /\ hash_seed \in HashSeeds
    /\ run = 1
    /\ first_run = None

\* -------------------------------------------------------------- DataFrame
\* pd.DataFrame(list of dicts): the columns are the keys of the dicts, so a
\* frame built from an empty list has no columns
DataFrame(records) ==
    [columns |-> UNION { DOMAIN records[i] : i \in 1..Len(records) },
     rows |-> records]

\* the rows of a frame whose objectid is in ids (Series.isin)
RowsIsin(df, ids) == SelectSeq(df.rows, LAMBDA r : r.objectid \in ids)

SeqToSet(s) == { s[i] : i \in 1..Len(s) }

\* --------------------------------------------------------------- load_data
\* mutant: the type of the cluster is not looked at
BenchClustersAnyType(clusters) == clusters

BenchClusters(clusters) == SelectSeq(clusters, LAMBDA c : c.type = "benches")

AllBenchIds(clusters) ==
    UNION { SeqToSet(BenchClusters(clusters)[k].component_ids)
            : k \in 1..Len(BenchClusters(clusters)) }

\* mutant: the shorter extent is taken for the length
EnvelopeLengthAsMin(coords) ==
    LET b == Bounds(coords) IN ToMeters(Min2(b[3] - b[1], b[4] - b[2]) * FP)

EnvelopeLength(coords) ==
    LET b == Bounds(coords) IN ToMeters(Max2(b[3] - b[1], b[4] - b[2]) * FP)

EnvelopeWidth(coords) ==
    LET b == Bounds(coords) IN ToMeters(Min2(b[3] - b[1], b[4] - b[2]) * FP)

\* mutant: a box without extent counts as a square
AspectRatioOfSquare(width, length) == IF length > 0 THEN (width * FP) \div length ELSE FP

AspectRatio(width, length) == IF length > 0 THEN (width * FP) \div length ELSE 0

\* the geometric fields load_data writes into a retained record
WithFeatures(component) ==
    LET coords == component.geo_shape
    IN  [objectid |-> component.objectid,
         geo_shape |-> component.geo_shape,
         geometry |-> coords,
         point_count |-> Len(coords),
         length_m |-> ToMeters(GeomLength(coords)),
         envelope_length_m |-> EnvelopeLength(coords),
         envelope_width_m |-> EnvelopeWidth(coords),
         aspect_ratio |-> AspectRatio(EnvelopeWidth(coords), EnvelopeLength(coords))]

Retained(component, clusters) == component.objectid \in AllBenchIds(clusters)

\* the loaded records after the loop: a retained record is the dict the loop
\* wrote the features into, the others are as loaded
LoadedRecords(records, clusters) ==
    [i \in 1..Len(records) |->
        IF Retained(records[i], clusters) THEN WithFeatures(records[i]) ELSE records[i]]

\* the clusters file is read first, then the raw file; an exception of
\* open or json.load is not caught and ends run_full_analysis
load_data ==
    /\ pc = "start"
    /\ IF io_failure \in ClustersUnreadable
       THEN /\ UNCHANGED <<manual_clusters, raw_list, raw_data>>
            /\ pc' = "load_failed"
       ELSE IF io_failure \in RawUnreadable
       THEN /\ manual_clusters' = clusters_file
            /\ UNCHANGED <<raw_list, raw_data>>
            /\ pc' = "load_failed"
       ELSE /\ manual_clusters' = clusters_file
            /\ raw_list' = LoadedRecords(raw_file, clusters_file)
            /\ raw_data' = DataFrame(SelectSeq(LoadedRecords(raw_file, clusters_file),
                                               LAMBDA r : Retained(r, clusters_file)))
            /\ pc' = "loaded"
    /\ UNCHANGED <<inputs, process, bench_components, pattern_analysis,
                   spatial_analysis, canonical_dims, validation_patterns,
                   detection_rules, results_clean, output_file>>

\* ------------------------------------------------ extract_bench_components
JoinColumns == {"cluster_id", "component_count", "arrondissement", "total_length", "confidence"}

\* id_to_cluster[comp_id]: the dict is overwritten in cluster order, so the
\* last bench cluster that lists comp_id is the one kept
LastClusterOf(comp_id, clusters) ==
    LET bc == BenchClusters(clusters)
        ks == { k \in 1..Len(bc) : comp_id \in SeqToSet(bc[k].component_ids) }
    IN  bc[CHOOSE k \in ks : \A m \in ks : m <= k]

JoinedRow(row, clusters) ==
    IF row.objectid \in AllBenchIds(clusters)
    THEN LET c == LastClusterOf(row.objectid, clusters)
         IN  [objectid |-> row.objectid,
              geo_shape |-> row.geo_shape,
              geometry |-> row.geometry,
              point_count |-> row.point_count,
              length_m |-> row.length_m,
              envelope_length_m |-> row.envelope_length_m,
              envelope_width_m |-> row.envelope_width_m,
              aspect_ratio |-> row.aspect_ratio,
              cluster_id |-> c.id,
              component_count |-> c.component_count,
              arrondissement |-> c.arrondissement,
              total_length |-> c.total_length,
              confidence |-> c.confidence]
    ELSE [objectid |-> row.objectid,
          geo_shape |-> row.geo_shape,
          geometry |-> row.geometry,
          point_count |-> row.point_count,
          length_m |-> row.length_m,
          envelope_length_m |-> row.envelope_length_m,
          envelope_width_m |-> row.envelope_width_m,
          aspect_ratio |-> row.aspect_ratio,
          cluster_id |-> None,
          component_count |-> None,
          arrondissement |-> None,
          total_length |-> None,
          confidence |-> None]

JoinedFrame(df, clusters) ==
    [columns |-> df.columns \cup JoinColumns,
     rows |-> [i \in 1..Len(df.rows) |-> JoinedRow(df.rows[i], clusters)]]

\* mutant: a frame without rows is joined like any other
extract_bench_components_lenient ==
    /\ pc = "loaded"
    /\ bench_components' = JoinedFrame(raw_data, manual_clusters)
    /\ pc' = "joined"
    /\ UNCHANGED <<inputs, process, raw_list, manual_clusters, raw_data,
                   pattern_analysis, spatial_analysis, canonical_dims,
                   validation_patterns, detection_rules, results_clean, output_file>>

\* self.bench_components['objectid'] raises KeyError on a frame without that
\* column; the exception is not caught and ends run_full_analysis
extract_bench_components ==
    /\ pc = "loaded"
    /\ IF "objectid" \in raw_data.columns
       THEN /\ bench_components' = JoinedFrame(raw_data, manual_clusters)
            /\ pc' = "joined"
       ELSE /\ bench_components' = raw_data
            /\ pc' = "error"
    /\ UNCHANGED <<inputs, process, raw_list, manual_clusters, raw_data,
                   pattern_analysis, spatial_analysis, canonical_dims,
                   validation_patterns, detection_rules, results_clean, output_file>>

\* ---------------------------------------------------------------- helpers
\* sorted(...) of a set of integers
RECURSIVE SortedSet(_)
SortedSet(S) ==
    IF S = {} THEN <<>>
    ELSE LET m == CHOOSE x \in S : \A y \in S : x <= y
         IN  <<m>> \o SortedSet(S \ {m})

\* sorted(...) of a list of integers
RECURSIVE Insert(_, _)
Insert(x, s) ==
    IF s = <<>> THEN <<x>>
    ELSE IF x <= Head(s) THEN <<x>> \o s
    ELSE <<Head(s)>> \o Insert(x, Tail(s))

RECURSIVE Sorted(_)
Sorted(s) == IF s = <<>> THEN <<>> ELSE Insert(Head(s), Sorted(Tail(s)))

RECURSIVE Concat(_)
Concat(ss) == IF ss = <<>> THEN <<>> ELSE Head(ss) \o Concat(Tail(ss))

\* list(set(...)) of tuples of point counts.  A CPython set of fewer than
\* five keys is a table of slots 0..7; a key goes to the first empty slot of
\* the slot sequence that follows from its hash, and the list walks the
\* table in slot order.  The hash of a tuple of ints is computed from the
\* ints alone: the salt of the interpreter enters the hash of a str or
\* bytes key only.
TupleProbes(key) ==
    CASE key = <<2>> -> <<3, 4, 5, 7, 6, 3, 1, 6>>
      [] key = <<5>> -> <<7, 4, 0, 1, 0, 0, 0, 6>>
      [] key = <<2, 2>> -> <<7, 4, 1, 7, 4, 1, 7, 2>>
      [] key = <<2, 5>> -> <<3, 4, 4, 1, 6, 6, 1, 1>>
      [] key = <<5, 2>> -> <<7, 2, 7, 0, 2, 0, 3, 2>>
      [] key = <<5, 5>> -> <<3, 3, 7, 3, 1, 6, 2, 3>>

EmptySlot == <<>>

RECURSIVE FirstFree(_, _, _)
FirstFree(table, probes, k) ==
    IF table[probes[k]] = EmptySlot THEN probes[k]
    ELSE FirstFree(table, probes, k + 1)

\* mutant: the patterns are kept as str keys, whose slots move with the salt
\* of the interpreter
SetAddSalted(table, key) ==
    IF \E i \in DOMAIN table : table[i] = key THEN table
    ELSE [table EXCEPT
            ![FirstFree(table,
                        [k \in 1..8 |-> (TupleProbes(key)[k] + hash_seed) % 8],
                        1)] = key]

SetAdd(table, key) ==
    IF \E i \in DOMAIN table : table[i] = key THEN table
    ELSE [table EXCEPT ![FirstFree(table, TupleProbes(key), 1)] = key]

\* the table after the keys were added in the order of the list
RECURSIVE SetOfKeys(_)
SetOfKeys(keys) ==
    IF keys = <<>> THEN [i \in 0..7 |-> EmptySlot]
    ELSE SetAdd(SetOfKeys(SubSeq(keys, 1, Len(keys) - 1)), keys[Len(keys)])

TableWalk(keys) ==
    LET table == SetOfKeys(keys)
    IN  Concat([i \in 1..8 |->
            IF table[i - 1] = EmptySlot THEN <<>> ELSE <<table[i - 1]>>])

ListOfSet(keys) == TableWalk(keys)

Column(rows, col) == [i \in 1..Len(rows) |-> rows[i][col]]

\* ----------------------------------------------- analyze_component_patterns
\* groupby(['component_count', 'point_count']).size().reset_index(name='count')
GroupSizes(df) ==
    LET ccs == SortedSet(SeqToSet(Column(df.rows, "component_count")))
        pcs == SortedSet(SeqToSet(Column(df.rows, "point_count")))
        size(cc, pt) ==
            Len(SelectSeq(df.rows,
                          LAMBDA r : r.component_count = cc /\ r.point_count = pt))
    IN  Concat([a \in 1..Len(ccs) |->
            Concat([b \in 1..Len(pcs) |->
                IF size(ccs[a], pcs[b]) > 0
                THEN << [component_count |-> ccs[a], point_count |-> pcs[b],
                         count |-> size(ccs[a], pcs[b])] >>
                ELSE <<>>])])

analyze_component_patterns ==
    /\ pc = "joined"
    /\ pattern_analysis' = GroupSizes(bench_components)
    /\ pc' = "patterns"
    /\ UNCHANGED <<inputs, process, raw_list, manual_clusters, raw_data,
                   bench_components, spatial_analysis, canonical_dims,
                   validation_patterns, detection_rules, results_clean, output_file>>

\* -------------------------------------------- analyze_spatial_relationships
MultiComponentClusters(clusters) ==
    SelectSeq(clusters, LAMBDA c : c.type = "benches" /\ c.component_count > 1)

\* the rows of the components a cluster lists
ClusterComponents(df, cluster) == RowsIsin(df, SeqToSet(cluster.component_ids))

\* pdist over the centroids of the components' geometries
CentroidDistances(components) ==
    pdist([i \in 1..Len(components) |-> Centroid(components[i].geometry)])

SpatialStats(df, clusters) ==
    LET mc == MultiComponentClusters(clusters)
        row(cluster) ==
            LET components == ClusterComponents(df, cluster)
                distances == CentroidDistances(components)
            IN  IF Len(components) < 2 THEN <<>>
                ELSE << [cluster_id |-> cluster.id,
                         component_count |-> cluster.component_count,
                         min_distance |-> ToMeters(MinSeq(distances)),
                         max_distance |-> ToMeters(MaxSeq(distances)),
                         mean_distance |-> ToMeters(Mean(distances)),
                         arrondissement |-> cluster.arrondissement] >>
    IN  Concat([k \in 1..Len(mc) |-> row(mc[k])])

analyze_spatial_relationships ==
    /\ pc = "patterns"
    /\ spatial_analysis' = DataFrame(SpatialStats(bench_components, manual_clusters))
    /\ pc' = "spatial"
    /\ UNCHANGED <<inputs, process, raw_list, manual_clusters, raw_data,
                   bench_components, pattern_analysis, canonical_dims,
                   validation_patterns, detection_rules, results_clean, output_file>>

\* ------------------------------------------- calculate_canonical_dimensions
SingleBenches(df) == SelectSeq(df.rows, LAMBDA r : r.component_count = 1)

CanonicalStats(subset) ==
    LET lengths == Column(subset, "envelope_length_m")
        widths == Column(subset, "envelope_width_m")
        aspect_ratios == Column(subset, "aspect_ratio")
        total_lengths == Column(subset, "length_m")
    IN  [count |-> Len(subset),
         envelope_length_mean |-> Mean(lengths),
         envelope_length_std |-> Std(lengths),
         envelope_width_mean |-> Mean(widths),
         envelope_width_std |-> Std(widths),
         aspect_ratio_mean |-> Mean(aspect_ratios),
         aspect_ratio_std |-> Std(aspect_ratios),
         total_length_mean |-> Mean(total_lengths),
         total_length_std |-> Std(total_lengths),
         length_range |-> <<MinSeq(lengths), MaxSeq(lengths)>>,
         width_range |-> <<MinSeq(widths), MaxSeq(widths)>>,
         aspect_ratio_range |-> <<MinSeq(aspect_ratios), MaxSeq(aspect_ratios)>>]

\* canonical_stats: one entry per point count that occurs among the
\* single-component benches
CanonicalDimensions(df) ==
    LET single_benches == SingleBenches(df)
    IN  [point_count \in SeqToSet(Column(single_benches, "point_count")) |->
            CanonicalStats(SelectSeq(single_benches,
                                     LAMBDA r : r.point_count = point_count))]

calculate_canonical_dimensions ==
    /\ pc = "spatial"
    /\ canonical_dims' = CanonicalDimensions(bench_components)
    /\ pc' = "canonical"
    /\ UNCHANGED <<inputs, process, raw_list, manual_clusters, raw_data,
                   bench_components, pattern_analysis, spatial_analysis,
                   validation_patterns, detection_rules, results_clean, output_file>>

\* --------------------------------------- validate_against_current_detection
\* detection results: a list of per-district dicts; a district may have a
\* 'benches' list, and a bench may have a 'components' list of objectids
DetectionCatalog ==
    << <<>>,
       << [arrondissement |-> 11] >>,
       << [arrondissement |-> 11, benches |-> << [bench_id |-> 1] >>] >>,
       << [arrondissement |-> 11,
           benches |-> << [bench_id |-> 1, components |-> <<2, 3>>] >>],
          [arrondissement |-> 12,
           benches |-> << [bench_id |-> 2, components |-> <<3, 4>>] >>] >>,
       << [arrondissement |-> 11,
           benches |-> << [bench_id |-> 1, components |-> <<1>>],
                          [bench_id |-> 2, components |-> <<4, 1>>] >>] >>,
       << [arrondissement |-> 11,
           benches |-> << [bench_id |-> 1, components |-> <<1, 2, 3>>] >>],
          [arrondissement |-> 12] >> >>

DetectionFiles == { DetectionCatalog[i] : i \in 1..Len(DetectionCatalog) }

\* no path, the path of a file that does not exist, the path of a file
DetectionPaths == {None, "absent", "present"}

\* the benches of all districts that have the key 'benches', in file order
DetectedBenches(detection_data) ==
    Concat([a \in 1..Len(detection_data) |->
        IF "benches" \in DOMAIN detection_data[a]
        THEN detection_data[a].benches ELSE <<>>])

DetectedComponentIds(detection_data) ==
    UNION { IF "components" \in DOMAIN DetectedBenches(detection_data)[b]
            THEN SeqToSet(DetectedBenches(detection_data)[b].components)
            ELSE {}
            : b \in 1..Len(DetectedBenches(detection_data)) }

\* mutant: precision is 1 when nothing was detected
ValidationMetricsVacuousPrecision(clusters, detection_data) ==
    LET manual_component_ids == AllBenchIds(clusters)
        detected_component_ids == DetectedComponentIds(detection_data)
        overlap == manual_component_ids \cap detected_component_ids
    IN  [manual_clusters |-> Len(BenchClusters(clusters)),
         manual_components |-> Cardinality(manual_component_ids),
         detected_benches |-> Len(DetectedBenches(detection_data)),
         detected_components |-> Cardinality(detected_component_ids),
         true_positives |-> Cardinality(overlap),
         false_negatives |-> Cardinality(manual_component_ids \ detected_component_ids),
         potential_false_positives |->
             Cardinality(detected_component_ids \ manual_component_ids),
         recall |-> IF Cardinality(manual_component_ids) > 0
                    THEN (Cardinality(overlap) * FP) \div Cardinality(manual_component_ids)
                    ELSE 0,
         precision |-> IF Cardinality(detected_component_ids) > 0
                       THEN (Cardinality(overlap) * FP) \div Cardinality(detected_component_ids)
                       ELSE FP]

\* mutant: the manual-only and the detected-only counts are exchanged
ValidationMetricsExchangedCounts(clusters, detection_data) ==
    LET manual_component_ids == AllBenchIds(clusters)
        detected_component_ids == DetectedComponentIds(detection_data)
        overlap == manual_component_ids \cap detected_component_ids
    IN  [manual_clusters |-> Len(BenchClusters(clusters)),
         manual_components |-> Cardinality(manual_component_ids),
         detected_benches |-> Len(DetectedBenches(detection_data)),
         detected_components |-> Cardinality(detected_component_ids),
         true_positives |-> Cardinality(overlap),
         false_negatives |-> Cardinality(detected_component_ids \ manual_component_ids),
         potential_false_positives |->
             Cardinality(manual_component_ids \ detected_component_ids),
         recall |-> IF Cardinality(manual_component_ids) > 0
                    THEN (Cardinality(overlap) * FP) \div Cardinality(manual_component_ids)
                    ELSE 0,
         precision |-> IF Cardinality(detected_component_ids) > 0
                       THEN (Cardinality(overlap) * FP) \div Cardinality(detected_component_ids)
                       ELSE 0]

\* the metrics returned when the detection results were loaded; recall and
\* precision start at 0 and are computed only over a non-empty denominator
ValidationMetrics(clusters, detection_data) ==
    LET manual_component_ids == AllBenchIds(clusters)
        detected_component_ids == DetectedComponentIds(detection_data)
        overlap == manual_component_ids \cap detected_component_ids
    IN  [manual_clusters |-> Len(BenchClusters(clusters)),
         manual_components |-> Cardinality(manual_component_ids),
         detected_benches |-> Len(DetectedBenches(detection_data)),
         detected_components |-> Cardinality(detected_component_ids),
         true_positives |-> Cardinality(overlap),
         false_negatives |-> Cardinality(manual_component_ids \ detected_component_ids),
         potential_false_positives |->
             Cardinality(detected_component_ids \ manual_component_ids),
         recall |-> IF Cardinality(manual_component_ids) > 0
                    THEN (Cardinality(overlap) * FP) \div Cardinality(manual_component_ids)
                    ELSE 0,
         precision |-> IF Cardinality(detected_component_ids) > 0
                       THEN (Cardinality(overlap) * FP) \div Cardinality(detected_component_ids)
                       ELSE 0]

\* the baseline returned without detection results
CountBy(clusters, field) ==
    [v \in SeqToSet(Column(clusters, field)) |->
        Len(SelectSeq(clusters, LAMBDA c : c[field] = v))]

ValidationBaseline(clusters) ==
    [manual_clusters |-> Len(BenchClusters(clusters)),
     manual_components |-> Cardinality(AllBenchIds(clusters)),
     component_count_distribution |-> CountBy(BenchClusters(clusters), "component_count"),
     arrondissement_distribution |-> CountBy(BenchClusters(clusters), "arrondissement")]

\* the method: the metrics if a path is given and the file exists, the
\* baseline otherwise
ValidateAgainstCurrentDetection(clusters, path, detection_data) ==
    IF path # None /\ path = "present"
    THEN ValidationMetrics(clusters, detection_data)
    ELSE ValidationBaseline(clusters)

\* the call of run_full_analysis
validate_against_current_detection ==
    /\ pc = "canonical"
    /\ validation_patterns' =
           ValidateAgainstCurrentDetection(manual_clusters, detection_results_path,
                                           detection_file)
    /\ pc' = "validated"
    /\ UNCHANGED <<inputs, process, raw_list, manual_clusters, raw_data,
                   bench_components, pattern_analysis, spatial_analysis,
                   canonical_dims, detection_rules, results_clean, output_file>>

\* ----------------------------------------- analyze_multi_component_geometry
\* mutant: the point counts are listed in row order, not sorted
GeometricPatternUnsorted(df, cluster) ==
    LET components == RowsIsin(df, SeqToSet(cluster.component_ids))
        distances == pdist([i \in 1..Len(components) |-> Centroid(components[i].geometry)])
        measured == Len(components) >= 2
    IN  [cluster_id |-> cluster.id,
         point_count_pattern |-> Column(components, "point_count"),
         envelope_lengths |-> Column(components, "envelope_length_m"),
         envelope_widths |-> Column(components, "envelope_width_m"),
         aspect_ratios |-> Column(components, "aspect_ratio"),
         min_distance_m |-> IF measured THEN ToMeters(MinSeq(distances)) ELSE 0,
         max_distance_m |-> IF measured THEN ToMeters(MaxSeq(distances)) ELSE 0,
         mean_distance_m |-> IF measured THEN ToMeters(Mean(distances)) ELSE 0,
         total_cluster_length |-> cluster.total_length,
         arrondissement |-> cluster.arrondissement]

\* the pattern of one multi-component cluster with at least one joined
\* component; with fewer than two components no distance is computed and
\* the three distances are set to 0
GeometricPattern(df, cluster) ==
    LET components == ClusterComponents(df, cluster)
        distances == CentroidDistances(components)
        measured == Len(components) >= 2
    IN  [cluster_id |-> cluster.id,
         point_count_pattern |-> Sorted(Column(components, "point_count")),
         envelope_lengths |-> Column(components, "envelope_length_m"),
         envelope_widths |-> Column(components, "envelope_width_m"),
         aspect_ratios |-> Column(components, "aspect_ratio"),
         min_distance_m |-> IF measured THEN ToMeters(MinSeq(distances)) ELSE 0,
         max_distance_m |-> IF measured THEN ToMeters(MaxSeq(distances)) ELSE 0,
         mean_distance_m |-> IF measured THEN ToMeters(Mean(distances)) ELSE 0,
         total_cluster_length |-> cluster.total_length,
         arrondissement |-> cluster.arrondissement]

\* a cluster without any joined component adds its key but no pattern
PatternsOf(df, cluster) ==
    IF Len(ClusterComponents(df, cluster)) = 0 THEN <<>>
    ELSE << GeometricPattern(df, cluster) >>

\* geometric_patterns: component_count -> list of patterns, in cluster order
GeometricPatterns(df, clusters) ==
    LET mc == MultiComponentClusters(clusters)
    IN  [comp_count \in SeqToSet(Column(mc, "component_count")) |->
            Concat([k \in 1..Len(mc) |->
                IF mc[k].component_count = comp_count
                THEN PatternsOf(df, mc[k]) ELSE <<>>])]

\* ------------------------------------------------- generate_detection_rules
\* mutant: the total length range is one standard deviation wide
SingleComponentRuleOneSigma(point_count, stats) ==
    [point_count |-> point_count,
     envelope_length_canonical |-> stats.envelope_length_mean,
     envelope_width_canonical |-> stats.envelope_width_mean,
     envelope_length_tolerance_2pct |-> (stats.envelope_length_mean * TolerancePct) \div 100,
     envelope_width_tolerance_2pct |-> (stats.envelope_width_mean * TolerancePct) \div 100,
     aspect_ratio_min |-> stats.aspect_ratio_range[1],
     aspect_ratio_max |-> stats.aspect_ratio_range[2],
     total_length_min |-> stats.total_length_mean - stats.total_length_std,
     total_length_max |-> stats.total_length_mean + stats.total_length_std,
     confidence |-> IF point_count = SevenPoint THEN ConfSevenPoint ELSE ConfOtherPoint,
     sample_count |-> stats.count]

\* mutant: the width tolerance is taken from the mean length
SingleComponentRuleCopiedTolerance(point_count, stats) ==
    [point_count |-> point_count,
     envelope_length_canonical |-> stats.envelope_length_mean,
     envelope_width_canonical |-> stats.envelope_width_mean,
     envelope_length_tolerance_2pct |-> (stats.envelope_length_mean * TolerancePct) \div 100,
     envelope_width_tolerance_2pct |-> (stats.envelope_length_mean * TolerancePct) \div 100,
     aspect_ratio_min |-> stats.aspect_ratio_range[1],
     aspect_ratio_max |-> stats.aspect_ratio_range[2],
     total_length_min |-> stats.total_length_mean - StdFactor * stats.total_length_std,
     total_length_max |-> stats.total_length_mean + StdFactor * stats.total_length_std,
     confidence |-> IF point_count = SevenPoint THEN ConfSevenPoint ELSE ConfOtherPoint,
     sample_count |-> stats.count]

\* the rule stored under '<point_count>_point'
SingleComponentRule(point_count, stats) ==
    [point_count |-> point_count,
     envelope_length_canonical |-> stats.envelope_length_mean,
     envelope_width_canonical |-> stats.envelope_width_mean,
     envelope_length_tolerance_2pct |-> (stats.envelope_length_mean * TolerancePct) \div 100,
     envelope_width_tolerance_2pct |-> (stats.envelope_width_mean * TolerancePct) \div 100,
     aspect_ratio_min |-> stats.aspect_ratio_range[1],
     aspect_ratio_max |-> stats.aspect_ratio_range[2],
     total_length_min |-> stats.total_length_mean - StdFactor * stats.total_length_std,
     total_length_max |-> stats.total_length_mean + StdFactor * stats.total_length_std,
     confidence |-> IF point_count = SevenPoint THEN ConfSevenPoint ELSE ConfOtherPoint,
     sample_count |-> stats.count]

SuggestedEps(max_dists) == Mean(max_dists) + Std(max_dists)

\* the rule stored under '<comp_count>_component'
ClusteringRule(comp_count, patterns) ==
    LET max_dists == Column(patterns, "max_distance_m")
        mean_dists == Column(patterns, "mean_distance_m")
    IN  [component_count |-> comp_count,
         max_distance_mean |-> Mean(max_dists),
         max_distance_std |-> Std(max_dists),
         suggested_eps_meters |-> SuggestedEps(max_dists),
         typical_point_patterns |->
            ListOfSet(Column(patterns, "point_count_pattern")),
         confidence |-> IF comp_count = TwoComponent THEN ConfTwoComponent
                                                     ELSE ConfOtherComponent,
         sample_count |-> Len(patterns)]

\* clustering_rules: only the component counts with at least one pattern
ClusteringRules(geometric_patterns) ==
    [comp_count \in { c \in DOMAIN geometric_patterns : Len(geometric_patterns[c]) > 0 } |->
        ClusteringRule(comp_count, geometric_patterns[comp_count])]

DetectionRules(df, clusters) ==
    LET canonical == CanonicalDimensions(df)
    IN  [single_component_benches |->
            [point_count \in DOMAIN canonical |->
                SingleComponentRule(point_count, canonical[point_count])],
         multi_component_clustering |->
            ClusteringRules(GeometricPatterns(df, clusters)),
         geometric_validation |->
            [rectangle_frame_validation |->
                [min_components |-> 4,
                 parallel_tolerance_deg |-> 4,
                 orthogonal_tolerance_deg |-> 5,
                 length_similarity_tolerance_ratio |-> 2],
             backrest_validation |->
                [straightness_min |-> 98,
                 parallel_angle_tolerance_deg |-> 4,
                 offset_min_meters |-> 25,
                 offset_max_meters |-> 40,
                 length_similarity_tolerance_ratio |-> 2]],
         confidence_scoring |->
            [single_component_envelope_canonical |-> 98,
             single_component_length_fallback |-> 90,
             two_component_frame_backrest |-> 96,
             rectangle_validation_4_component |-> 90,
             rect_with_backrest_5_component |-> 85,
             rect_with_2_backrests_6_component |-> 90]]

generate_detection_rules ==
    /\ pc = "validated"
    /\ detection_rules' = DetectionRules(bench_components, manual_clusters)
    /\ pc' = "rules"
    /\ UNCHANGED <<inputs, process, raw_list, manual_clusters, raw_data,
                   bench_components, pattern_analysis, spatial_analysis,
                   canonical_dims, validation_patterns, results_clean, output_file>>

\* ---------------------------------------------------------- results tree
\* A value of the results dict: a numpy scalar (np.int64 or np.float64), a
\* plain Python int or float, or a dict, list or tuple of values.
Np(v, dtype) == [tag |-> "np", dtype |-> dtype, val |-> v]
Py(v, type) == [tag |-> "py", type |-> type, val |-> v]
PyDict(d) == [tag |-> "dict", val |-> d]
PyList(l) == [tag |-> "list", val |-> l]
PyTuple(t) == [tag |-> "tuple", val |-> t]

\* the dtype of the aspect_ratio column: the value of a component without
\* extent is the int 0, of any other a float, and a column of ints only is
\* an int64 column
AspectRatioDType(df) ==
    IF \A i \in 1..Len(df.rows) : ~(df.rows[i].envelope_length_m > 0)
    THEN "int64" ELSE "float64"

\* DataFrame.to_dict('records'): a list of dicts of Python numbers
RecordsTree(rows, float_columns) ==
    PyList([i \in 1..Len(rows) |->
        PyDict([col \in DOMAIN rows[i] |->
            Py(rows[i][col], IF col \in float_columns THEN "float" ELSE "int")])])

\* canonical_stats[point_count]: len() is a Python int, np.mean / np.std are
\* np.float64, the ranges are tuples of np.min / np.max results, which have
\* the dtype of the column
CanonicalStatsTree(stats, aspect_dtype) ==
    PyDict([count |-> Py(stats.count, "int"),
            envelope_length_mean |-> Np(stats.envelope_length_mean, "float64"),
            envelope_length_std |-> Np(stats.envelope_length_std, "float64"),
            envelope_width_mean |-> Np(stats.envelope_width_mean, "float64"),
            envelope_width_std |-> Np(stats.envelope_width_std, "float64"),
            aspect_ratio_mean |-> Np(stats.aspect_ratio_mean, "float64"),
            aspect_ratio_std |-> Np(stats.aspect_ratio_std, "float64"),
            total_length_mean |-> Np(stats.total_length_mean, "float64"),
            total_length_std |-> Np(stats.total_length_std, "float64"),
            length_range |-> PyTuple([i \in 1..2 |-> Np(stats.length_range[i], "float64")]),
            width_range |-> PyTuple([i \in 1..2 |-> Np(stats.width_range[i], "float64")]),
            aspect_ratio_range |->
                PyTuple([i \in 1..2 |-> Np(stats.aspect_ratio_range[i], aspect_dtype)])])

CanonicalTree(canonical, aspect_dtype) ==
    PyDict([point_count \in DOMAIN canonical |->
        CanonicalStatsTree(canonical[point_count], aspect_dtype)])

\* the baseline of the validation: counts
ValidationTree(v) ==
    PyDict([manual_clusters |-> Py(v.manual_clusters, "int"),
            manual_components |-> Py(v.manual_components, "int"),
            component_count_distribution |->
                PyDict([k \in DOMAIN v.component_count_distribution |->
                    Py(v.component_count_distribution[k], "int")]),
            arrondissement_distribution |->
                PyDict([k \in DOMAIN v.arrondissement_distribution |->
                    Py(v.arrondissement_distribution[k], "int")])])

\* point_count comes from Series.unique() and the statistics from numpy;
\* the confidence literal is a Python float and the count a Python int
SingleRuleTree(rule, aspect_dtype) ==
    PyDict([point_count |-> Np(rule.point_count, "int64"),
            envelope_length_canonical |-> Np(rule.envelope_length_canonical, "float64"),
            envelope_width_canonical |-> Np(rule.envelope_width_canonical, "float64"),
            envelope_length_tolerance_2pct |->
                Np(rule.envelope_length_tolerance_2pct, "float64"),
            envelope_width_tolerance_2pct |->
                Np(rule.envelope_width_tolerance_2pct, "float64"),
            aspect_ratio_min |-> Np(rule.aspect_ratio_min, aspect_dtype),
            aspect_ratio_max |-> Np(rule.aspect_ratio_max, aspect_dtype),
            total_length_min |-> Np(rule.total_length_min, "float64"),
            total_length_max |-> Np(rule.total_length_max, "float64"),
            confidence |-> Py(rule.confidence, "float"),
            sample_count |-> Py(rule.sample_count, "int")])

\* component_count is the int of the clusters file; typical_point_patterns
\* is a list of tuples of Python ints (Series.tolist)
ClusteringRuleTree(rule) ==
    PyDict([component_count |-> Py(rule.component_count, "int"),
            max_distance_mean |-> Np(rule.max_distance_mean, "float64"),
            max_distance_std |-> Np(rule.max_distance_std, "float64"),
            suggested_eps_meters |-> Np(rule.suggested_eps_meters, "float64"),
            typical_point_patterns |->
                PyList([i \in 1..Len(rule.typical_point_patterns) |->
                    PyTuple([j \in 1..Len(rule.typical_point_patterns[i]) |->
                        Py(rule.typical_point_patterns[i][j], "int")])]),
            confidence |-> Py(rule.confidence, "float"),
            sample_count |-> Py(rule.sample_count, "int")])

\* the literals of the two fixed rule groups that are written as ints
IntLiterals ==
    {"min_components", "parallel_tolerance_deg", "orthogonal_tolerance_deg",
     "parallel_angle_tolerance_deg"}

\* the four rule groups; the two literal groups hold Python numbers
DetectionRulesTree(rules, aspect_dtype) ==
    PyDict([single_component_benches |->
                PyDict([k \in DOMAIN rules.single_component_benches |->
                    SingleRuleTree(rules.single_component_benches[k], aspect_dtype)]),
            multi_component_clustering |->
                PyDict([k \in DOMAIN rules.multi_component_clustering |->
                    ClusteringRuleTree(rules.multi_component_clustering[k])]),
            geometric_validation |->
                PyDict([g \in DOMAIN rules.geometric_validation |->
                    PyDict([k \in DOMAIN rules.geometric_validation[g] |->
                        Py(rules.geometric_validation[g][k],
                           IF k \in IntLiterals THEN "int" ELSE "float")])]),
            confidence_scoring |->
                PyDict([k \in DOMAIN rules.confidence_scoring |->
                    Py(rules.confidence_scoring[k], "float")])])

\* value_counts().to_dict() of the component_count column
ValueCounts(rows, col) ==
    [v \in SeqToSet(Column(rows, col)) |->
        Len(SelectSeq(rows, LAMBDA r : r[col] = v))]

\* len() results and the Python ints of Series.to_dict()
SummaryTree(df) ==
    PyDict([total_bench_components |-> Py(Len(df.rows), "int"),
            unique_clusters |->
                Py(Cardinality(SeqToSet(Column(df.rows, "cluster_id"))), "int"),
            component_count_distribution |->
                PyDict([k \in DOMAIN ValueCounts(df.rows, "component_count") |->
                    Py(ValueCounts(df.rows, "component_count")[k], "int")])])

\* the results dict of run_full_analysis
Results(patterns, spatial, canonical, validation, rules, df) ==
    PyDict([pattern_analysis |-> RecordsTree(patterns, {}),
            spatial_analysis |->
                RecordsTree(spatial.rows, {"min_distance", "max_distance", "mean_distance"}),
            canonical_dimensions |-> CanonicalTree(canonical, AspectRatioDType(df)),
            validation_patterns |-> ValidationTree(validation),
            detection_rules |-> DetectionRulesTree(rules, AspectRatioDType(df)),
            summary |-> SummaryTree(df)])

\* convert_numpy_types: a value with .item() becomes the Python int or float
\* of its dtype, dicts and lists are rebuilt from their converted members,
\* anything else (a tuple, a Python scalar) is returned as it is
RECURSIVE convert_numpy_types(_)
convert_numpy_types(obj) ==
    IF obj.tag = "np" THEN Py(obj.val, IF obj.dtype = "int64" THEN "int" ELSE "float")
    ELSE IF obj.tag = "dict" THEN PyDict([k \in DOMAIN obj.val |-> convert_numpy_types(obj.val[k])])
    ELSE IF obj.tag = "list" THEN PyList([i \in 1..Len(obj.val) |-> convert_numpy_types(obj.val[i])])
    ELSE obj

\* json.dump(..., default=str): a dict is written as an object, a list or a
\* tuple as an array, a Python number as a number; np.float64 is a float and
\* is written as a number; np.int64 is no int, goes through default=str and
\* is written as the string of its digits
RECURSIVE JsonDump(_)
JsonDump(obj) ==
    IF obj.tag = "dict"
    THEN [tag |-> "object", val |-> [k \in DOMAIN obj.val |-> JsonDump(obj.val[k])]]
    ELSE IF obj.tag \in {"list", "tuple"}
    THEN [tag |-> "array", val |-> [i \in 1..Len(obj.val) |-> JsonDump(obj.val[i])]]
    ELSE IF obj.tag = "py"
    THEN [tag |-> "number", type |-> obj.type, val |-> obj.val]
    ELSE IF obj.dtype = "float64"
    THEN [tag |-> "number", type |-> "float", val |-> obj.val]
    ELSE [tag |-> "string", val |-> obj.val]

\* convert, then json.dump to bench_pattern_analysis_results.json
save_results ==
    /\ pc = "rules"
    /\ results_clean' = convert_numpy_types(
           Results(pattern_analysis, spatial_analysis, canonical_dims,
                   validation_patterns, detection_rules, bench_components))
    /\ output_file' = JsonDump(results_clean')
    /\ pc' = "done"
    /\ UNCHANGED <<inputs, process, raw_list, manual_clusters, raw_data,
                   bench_components, pattern_analysis, spatial_analysis,
                   canonical_dims, validation_patterns, detection_rules>>

Next ==
    \/ load_data
    \/ extract_bench_components
    \/ analyze_component_patterns
    \/ analyze_spatial_relationships
    \/ calculate_canonical_dimensions
    \/ validate_against_current_detection
    \/ generate_detection_rules
    \/ save_results

Spec == Init /\ [][Next]_vars

\* ------------------------------------------------- the methods on their own
\* A caller that loads, joins, calls
\* validate_against_current_detection(detection_results_path) or not, and
\* calls generate_detection_rules on the joined analyzer.  Both input files are readable and the raw
\* dataset has a record of every objectid.
CompleteRawFiles == { RawRecords(Ids, layout, 1) : layout \in 1..Len(ShapeCatalog) }

InitValidation ==
    /\ pc = "start"
    /\ io_failure = "none"
    /\ raw_file \in CompleteRawFiles
    /\ clusters_file \in ClusterFiles
    /\ detection_results_path \in DetectionPaths
    /\ detection_file \in (IF detection_results_path = "present"
                            THEN DetectionFiles ELSE {<<>>})
    /\ raw_list = None
    /\ manual_clusters = None
    /\ raw_data = None
    /\ bench_components = None
    /\ pattern_analysis = None
    /\ spatial_analysis = None
    /\ canonical_dims = None
    /\ validation_patterns = None
    /\ detection_rules = None
    /\ results_clean = None
    /\ output_file = None
    /\ hash_seed \in HashSeeds
    /\ run = 1
    /\ first_run = None

\* mutant: the validation keeps only the bench clusters in self.manual_clusters
validate_narrowing_clusters ==
    /\ pc \in {"loaded", "joined"}
    /\ validation_patterns' =
           ValidateAgainstCurrentDetection(manual_clusters, detection_results_path,
                                           detection_file)
    /\ manual_clusters' = BenchClusters(manual_clusters)
    /\ pc' = (IF pc = "loaded" THEN "loaded_compared" ELSE "compared")
    /\ UNCHANGED <<inputs, process, raw_list, raw_data, bench_components, pattern_analysis,
                   spatial_analysis, canonical_dims, detection_rules, results_clean,
                   output_file>>

\* validate_against_current_detection(detection_results_path) on the loaded
\* or joined analyzer: it reads self.manual_clusters and assigns no attribute
validate_with_detection_results ==
    /\ pc \in {"loaded", "joined"}
    /\ validation_patterns' =
           ValidateAgainstCurrentDetection(manual_clusters, detection_results_path,
                                           detection_file)
    /\ pc' = (IF pc = "loaded" THEN "loaded_compared" ELSE "compared")
    /\ UNCHANGED <<inputs, process, raw_list, manual_clusters, raw_data, bench_components,
                   pattern_analysis, spatial_analysis, canonical_dims, detection_rules,
                   results_clean, output_file>>

\* generate_detection_rules, called before or after the validation
generate_rules_of_caller ==
    /\ pc \in {"joined", "compared"}
    /\ detection_rules' = DetectionRules(bench_components, manual_clusters)
    /\ pc' = (IF pc = "joined" THEN "rules_without_validation"
                               ELSE "rules_after_validation")
    /\ UNCHANGED <<inputs, process, raw_list, manual_clusters, raw_data, bench_components,
                   pattern_analysis, spatial_analysis, canonical_dims,
                   validation_patterns, results_clean, output_file>>

NextValidation ==
    \/ load_data
    \/ extract_bench_components
    \/ validate_with_detection_results
    \/ generate_rules_of_caller

SpecValidation == InitValidation /\ [][NextValidation]_vars

\* ------------------------------------------------------------- two runs
\* The pipeline is run, and run once more on the same two files: by the
\* same analyzer in the same interpreter, or by a new analyzer in a new
\* interpreter, which has a salt of its own.  A readable raw dataset has a
\* record of every objectid.
InitTwoRuns ==
    /\ pc = "start"
    /\ io_failure \in IoFailures
    /\ raw_file \in (IF io_failure \in RawUnreadable THEN {<<>>} ELSE CompleteRawFiles)
    /\ clusters_file \in (IF io_failure \in ClustersUnreadable THEN {<<>>} ELSE ClusterFiles)
    /\ detection_results_path = None
    /\ detection_file = <<>>
    /\ raw_list = None
    /\ manual_clusters = None
    /\ raw_data = None
    /\ bench_components = None
    /\ pattern_analysis = None
    /\ spatial_analysis = None
    /\ canonical_dims = None
    /\ validation_patterns = None
    /\ detection_rules = None
    /\ results_clean = None
    /\ output_file = None
    /\ hash_seed \in HashSeeds
    /\ run = 1
    /\ first_run = None

TerminalStages == {"done", "load_failed", "error"}

\* what a run ends with: the stage it ended in, the values the stages
\* returned and the results file
RunOutcome ==
    [pc |-> pc,
     hash_seed |-> hash_seed,
     pattern_analysis |-> pattern_analysis,
     spatial_analysis |-> spatial_analysis,
     canonical_dims |-> canonical_dims,
     validation_patterns |-> validation_patterns,
     detection_rules |-> detection_rules,
     results_clean |-> results_clean,
     output_file |-> output_file]

\* the second call of run_full_analysis.  The locals of the first call are
\* gone and the results file is on disk.  The same analyzer keeps its
\* attributes; __init__ of a new one sets them to None.
run_again ==
    /\ run = 1
    /\ pc \in TerminalStages
    /\ first_run' = RunOutcome
    /\ run' = 2
    /\ pc' = "start"
    /\ \E restart \in {"same_analyzer", "new_interpreter"} :
           IF restart = "same_analyzer"
           THEN UNCHANGED <<hash_seed, manual_clusters, raw_data, bench_components>>
           ELSE /\ hash_seed' \in HashSeeds
                /\ manual_clusters' = None
                /\ raw_data' = None
                /\ bench_components' = None
    /\ raw_list' = None
    /\ pattern_analysis' = None
    /\ spatial_analysis' = None
    /\ canonical_dims' = None
    /\ validation_patterns' = None
    /\ detection_rules' = None
    /\ results_clean' = None
    /\ UNCHANGED <<inputs, output_file>>

NextTwoRuns ==
    \/ Next
    \/ run_again

SpecTwoRuns == InitTwoRuns /\ [][NextTwoRuns]_vars

\* ------------------------------------------------------------------ claims
\* notions the claims are stated in, taken from the two input files
Abs(a) == IF a >= 0 THEN a ELSE -a
SetMin(S) == CHOOSE x \in S : \A y \in S : x <= y
SetMax(S) == CHOOSE x \in S : \A y \in S : x >= y

RawIds == { raw_file[i].objectid : i \in 1..Len(raw_file) }

\* objectid is listed by a manual cluster of the given type
ListedBy(objectid, type) ==
    \E k \in 1..Len(clusters_file) :
        /\ clusters_file[k].type = type
        /\ \E n \in 1..Len(clusters_file[k].component_ids) :
               clusters_file[k].component_ids[n] = objectid

\* the raw records a statistic may be computed from
Qualified == SelectSeq(raw_file, LAMBDA r : ListedBy(r.objectid, "benches"))

\* how far the run has come: the values set so far are no longer None
Reached(stages) == pc \in stages
Loaded == pc \notin {"start", "load_failed"}
Joined == Reached({"joined", "patterns", "spatial", "canonical", "validated", "rules", "done"})
PatternsMade == Reached({"patterns", "spatial", "canonical", "validated", "rules", "done"})
SpatialMade == Reached({"spatial", "canonical", "validated", "rules", "done"})
CanonicalMade == Reached({"canonical", "validated", "rules", "done"})
RulesMade == Reached({"rules", "done"})
Saved == pc = "done"

\* C1: every component behind a derived statistic is a record of the raw
\* dataset whose objectid a 'benches' cluster lists; a raw record listed only
\* by clusters of another type, or by none, is never retained.  The frames
\* the statistics are computed from hold exactly the qualified records, and
\* the counts of the pattern analysis, the canonical dimensions, the spatial
\* analysis, the clustering rules and the summary count no other record.
C1_OnlyBenchComponentsCounted ==
    /\ Loaded =>
           Column(raw_data.rows, "objectid") = Column(Qualified, "objectid")
    /\ Joined =>
           /\ Column(bench_components.rows, "objectid") = Column(Qualified, "objectid")
           /\ Column(bench_components.rows, "geo_shape") = Column(Qualified, "geo_shape")
    /\ PatternsMade =>
           SumSeq(Column(pattern_analysis, "count")) = Len(Qualified)
    /\ SpatialMade =>
           \A i \in 1..Len(spatial_analysis.rows) :
               Cardinality({ q \in SeqToSet(Qualified) :
                   q.objectid \in SeqToSet(
                       clusters_file[spatial_analysis.rows[i].cluster_id].component_ids) })
                   >= 2
    /\ CanonicalMade =>
           \A point_count \in DOMAIN canonical_dims :
               canonical_dims[point_count].count <=
                   Cardinality({ q \in SeqToSet(Qualified) : Len(q.geo_shape) = point_count })
    /\ RulesMade =>
           \A n \in DOMAIN detection_rules.multi_component_clustering :
               \A p \in SeqToSet(detection_rules.multi_component_clustering[n].typical_point_patterns) :
                   \A j \in 1..Len(p) :
                       \E q \in SeqToSet(Qualified) : Len(q.geo_shape) = p[j]
    /\ Saved =>
           results_clean.val.summary.val.total_bench_components.val = Len(Qualified)

\* C1 witness: the run is finished, one raw record is listed only by a
\* cluster of another type, one by no cluster, and one is retained
C1_Witness ==
    /\ pc = "done"
    /\ \E i \in RawIds : ListedBy(i, "planters") /\ ~ListedBy(i, "benches")
    /\ \E i \in RawIds : ~ListedBy(i, "planters") /\ ~ListedBy(i, "benches")
    /\ Len(bench_components.rows) >= 1

\* C2: no component is counted for two clusters: in the join every retained
\* component carries one cluster, and in the per-cluster distance
\* computation it is part of at most one cluster's row.
C2_NoDoubleCounting ==
    SpatialMade =>
        \A i \in 1..Len(bench_components.rows) :
            /\ bench_components.rows[i].cluster_id \in 1..Len(manual_clusters)
            /\ Cardinality({ n \in 1..Len(spatial_analysis.rows) :
                   bench_components.rows[i].objectid \in SeqToSet(
                       manual_clusters[spatial_analysis.rows[n].cluster_id].component_ids) })
                   <= 1

\* C3: a bench cluster that lists objectids missing from the raw dataset,
\* be it all of them, never brings the run to an error.
C3_MissingIdsNeverFail ==
    (\E i \in Ids : ListedBy(i, "benches") /\ i \notin RawIds) => pc # "error"

\* the components of a cluster that are joined, from the input files
JoinedIds(cluster) == SeqToSet(cluster.component_ids) \cap RawIds

\* the bench clusters with the declared component count n
GroupClusters(n) ==
    { k \in 1..Len(clusters_file) :
        clusters_file[k].type = "benches" /\ clusters_file[k].component_count = n }

\* C4: every entry of canonical_dimensions and of the two rule groups has at
\* least one sample, and every distance aggregated into a clustering rule is
\* a computed pairwise distance: each cluster counted in the rule has at
\* least two joined components.
C4_NoSynthesizedEntries ==
    RulesMade =>
        /\ \A point_count \in DOMAIN canonical_dims : canonical_dims[point_count].count >= 1
        /\ \A point_count \in DOMAIN detection_rules.single_component_benches :
               detection_rules.single_component_benches[point_count].sample_count >= 1
        /\ \A n \in DOMAIN detection_rules.multi_component_clustering :
               /\ detection_rules.multi_component_clustering[n].sample_count >= 1
               /\ \A k \in GroupClusters(n) :
                      Cardinality(JoinedIds(clusters_file[k])) # 1

\* a numpy value is left somewhere in a results tree
RECURSIVE HasNp(_)
HasNp(t) ==
    \/ t.tag = "np"
    \/ /\ t.tag \in {"dict", "list", "tuple"}
       /\ \E k \in DOMAIN t.val : HasNp(t.val[k])

\* C5: no numpy value is left in results_clean, at any depth and inside any
\* container, tuples included.
C5_NoWrapperLeft == Saved => ~HasNp(results_clean)

\* C6: loading and joining leave every loaded raw record and every loaded
\* manual cluster with the fields and values read from its file.
C6_InputsNotMutated ==
    Loaded => raw_list = raw_file /\ manual_clusters = clusters_file

\* the joined single-component benches with the given point count
GroupMembers(point_count) ==
    SelectSeq(bench_components.rows,
              LAMBDA r : r.component_count = 1 /\ r.point_count = point_count)

SingleRules == detection_rules.single_component_benches

\* C7 as claimed: in every single-component rule, the aspect ratio range
\* and the total length range are the observed minimum and maximum over the
\* group's members.
C7_RangesAreObservedMinMax ==
    RulesMade =>
        \A k \in DOMAIN SingleRules :
            /\ SingleRules[k].aspect_ratio_min =
                   SetMin(SeqToSet(Column(GroupMembers(k), "aspect_ratio")))
            /\ SingleRules[k].aspect_ratio_max =
                   SetMax(SeqToSet(Column(GroupMembers(k), "aspect_ratio")))
            /\ SingleRules[k].total_length_min =
                   SetMin(SeqToSet(Column(GroupMembers(k), "length_m")))
            /\ SingleRules[k].total_length_max =
                   SetMax(SeqToSet(Column(GroupMembers(k), "length_m")))

\* C7 amended: in every single-component rule, the aspect ratio range is the
\* observed minimum and maximum over the group's members, and the total
\* length range is the mean minus and plus two standard deviations of the
\* members' total lengths.
C7_AspectObservedLengthTwoSigma ==
    RulesMade =>
        \A k \in DOMAIN SingleRules :
            /\ SingleRules[k].aspect_ratio_min =
                   SetMin(SeqToSet(Column(GroupMembers(k), "aspect_ratio")))
            /\ SingleRules[k].aspect_ratio_max =
                   SetMax(SeqToSet(Column(GroupMembers(k), "aspect_ratio")))
            /\ SingleRules[k].total_length_min =
                   Mean(Column(GroupMembers(k), "length_m"))
                       - 2 * Std(Column(GroupMembers(k), "length_m"))
            /\ SingleRules[k].total_length_max =
                   Mean(Column(GroupMembers(k), "length_m"))
                       + 2 * Std(Column(GroupMembers(k), "length_m"))

\* C7 witness: a rule of a group of two members that differ in aspect ratio
\* and in total length, whose total length range is not the observed one
C7_Witness ==
    /\ RulesMade
    /\ \E k \in DOMAIN SingleRules :
           /\ SingleRules[k].sample_count >= 2
           /\ SingleRules[k].aspect_ratio_min < SingleRules[k].aspect_ratio_max
           /\ SingleRules[k].total_length_min <
                  SetMin(SeqToSet(Column(GroupMembers(k), "length_m")))

\* C8: in every single-component rule the two envelope tolerances are 0.02
\* times the mean envelope length and the mean envelope width of the
\* group's members.
C8_ToleranceIsTwoPercentOfMean ==
    RulesMade =>
        \A k \in DOMAIN SingleRules :
            /\ SingleRules[k].envelope_length_tolerance_2pct =
                   (Mean(Column(GroupMembers(k), "envelope_length_m")) * 2) \div 100
            /\ SingleRules[k].envelope_width_tolerance_2pct =
                   (Mean(Column(GroupMembers(k), "envelope_width_m")) * 2) \div 100

\* C8 witness: a rule of a group whose envelope lengths and widths vary,
\* with tolerances that differ from each other and from the spread
C8_Witness ==
    /\ RulesMade
    /\ \E k \in DOMAIN SingleRules :
           /\ SingleRules[k].sample_count >= 2
           /\ canonical_dims[k].length_range[1] < canonical_dims[k].length_range[2]
           /\ canonical_dims[k].envelope_length_std > 0
           /\ SingleRules[k].envelope_length_tolerance_2pct > 0
           /\ SingleRules[k].envelope_width_tolerance_2pct > 0
           /\ SingleRules[k].envelope_length_tolerance_2pct #
                  SingleRules[k].envelope_width_tolerance_2pct

ClusteringRulesMade == detection_rules.multi_component_clustering

RawRecordOf(objectid) == CHOOSE r \in SeqToSet(raw_file) : r.objectid = objectid

\* the centroid distances, in meters, of all pairs of joined components of
\* a cluster
PairwiseMeters(cluster) ==
    { ToMeters(PairDist(Centroid(RawRecordOf(p[1]).geo_shape),
                        Centroid(RawRecordOf(p[2]).geo_shape))) :
        p \in { q \in JoinedIds(cluster) \X JoinedIds(cluster) : q[1] # q[2] } }

\* the maximum pairwise centroid distance of each cluster of the
\* n-component group that has a pair of joined components, in cluster order
MaxPairwiseOfGroup(n) ==
    LET ks == SortedSet({ k \in GroupClusters(n) :
                            Cardinality(JoinedIds(clusters_file[k])) >= 2 })
    IN  [i \in 1..Len(ks) |-> SetMax(PairwiseMeters(clusters_file[ks[i]]))]

\* C9: for every component count with a clustering rule, suggested_eps_meters
\* is the mean plus the standard deviation of the per-cluster maximum
\* pairwise centroid distances of the group, and is not below their mean
\* (equalities up to two units of fixed-point rounding).
C9_EpsIsMeanPlusStd ==
    RulesMade =>
        \A n \in DOMAIN ClusteringRulesMade :
            /\ MaxPairwiseOfGroup(n) # <<>>
            /\ Abs(ClusteringRulesMade[n].suggested_eps_meters
                     - (Mean(MaxPairwiseOfGroup(n)) + Std(MaxPairwiseOfGroup(n)))) <= 2
            /\ ClusteringRulesMade[n].suggested_eps_meters + 2 >= Mean(MaxPairwiseOfGroup(n))

\* p lists the point counts of the given objectids in ascending order
IsSortedPointCounts(p, ids) ==
    /\ Len(p) = Cardinality(ids)
    /\ \A i \in 1..(Len(p) - 1) : p[i] <= p[i + 1]
    /\ \A v \in SeqToSet(p) \cup { Len(RawRecordOf(a).geo_shape) : a \in ids } :
           Cardinality({ i \in 1..Len(p) : p[i] = v }) =
               Cardinality({ a \in ids : Len(RawRecordOf(a).geo_shape) = v })

\* C10: for every bench cluster of more than one component whose components
\* are all in the raw dataset, the clustering rule of its component count
\* holds the ascending list of its components' point counts among its
\* observed patterns.
C10_SortedPatternObserved ==
    RulesMade =>
        \A k \in 1..Len(clusters_file) :
            (/\ clusters_file[k].type = "benches"
             /\ clusters_file[k].component_count > 1
             /\ SeqToSet(clusters_file[k].component_ids) \subseteq RawIds)
            => /\ clusters_file[k].component_count \in DOMAIN ClusteringRulesMade
               /\ \E p \in SeqToSet(ClusteringRulesMade[
                                clusters_file[k].component_count].typical_point_patterns) :
                      IsSortedPointCounts(p, SeqToSet(clusters_file[k].component_ids))

\* C10 witness: a cluster <<a, b>> of a five-point component a and a
\* two-point component b, a before b in the raw dataset, with a rule made
C10_Witness ==
    /\ RulesMade
    /\ \E k \in 1..Len(clusters_file) :
           /\ clusters_file[k].type = "benches"
           /\ Len(clusters_file[k].component_ids) = 2
           /\ SeqToSet(clusters_file[k].component_ids) \subseteq RawIds
           /\ clusters_file[k].component_ids[1] < clusters_file[k].component_ids[2]
           /\ Len(RawRecordOf(clusters_file[k].component_ids[1]).geo_shape) = 5
           /\ Len(RawRecordOf(clusters_file[k].component_ids[2]).geo_shape) = 2
           /\ <<2, 5>> \in SeqToSet(ClusteringRulesMade[2].typical_point_patterns)

\* ------------------------------------------- claims on the validation call
\* the component ids of the two sides, from the input files
ManualIds == { i \in Ids : ListedBy(i, "benches") }

DetectionIds == 1..4

DetectedIds ==
    { i \in DetectionIds :
        \E a \in 1..Len(detection_file) :
            /\ "benches" \in DOMAIN detection_file[a]
            /\ \E b \in 1..Len(detection_file[a].benches) :
                   /\ "components" \in DOMAIN detection_file[a].benches[b]
                   /\ \E n \in 1..Len(detection_file[a].benches[b].components) :
                          detection_file[a].benches[b].components[n] = i }

\* the validation was called with the path of an existing detection file
ComparedWithFile ==
    /\ pc \in {"loaded_compared", "compared", "rules_after_validation"}
    /\ detection_results_path = "present"

\* q is the fixed-point quotient num / den, rounded down
IsRatio(q, num, den) == q * den <= num * FP /\ num * FP < (q + 1) * den

\* C11: with a detection file, the validation reports the sizes of the
\* overlap, of the manual-only and of the detected-only component sets, and
\* recall = overlap / manual, precision = overlap / detected.
C11_MetricsAreSetSizes ==
    ComparedWithFile =>
        /\ validation_patterns.true_positives = Cardinality(ManualIds \cap DetectedIds)
        /\ validation_patterns.false_negatives = Cardinality(ManualIds \ DetectedIds)
        /\ validation_patterns.potential_false_positives =
               Cardinality(DetectedIds \ ManualIds)
        /\ ManualIds # {} =>
               IsRatio(validation_patterns.recall,
                       Cardinality(ManualIds \cap DetectedIds), Cardinality(ManualIds))
        /\ DetectedIds # {} =>
               IsRatio(validation_patterns.precision,
                       Cardinality(ManualIds \cap DetectedIds), Cardinality(DetectedIds))

\* C11 witness: manual {1,2,3} and detected {2,3,4}: overlap 2, recall and
\* precision 2/3
C11_Witness ==
    /\ ComparedWithFile
    /\ ManualIds = {1, 2, 3}
    /\ DetectedIds = {2, 3, 4}
    /\ validation_patterns.true_positives = 2
    /\ validation_patterns.false_negatives = 1
    /\ validation_patterns.potential_false_positives = 1
    /\ validation_patterns.recall = (2 * FP) \div 3
    /\ validation_patterns.precision = (2 * FP) \div 3

\* C12: with a detection file, an empty detected set gives precision 0 and
\* an empty manual set gives recall 0, and the metrics dictionary is returned
\* with all its entries.
C12_EmptySetsGiveZero ==
    ComparedWithFile =>
        /\ DOMAIN validation_patterns =
               {"manual_clusters", "manual_components", "detected_benches",
                "detected_components", "true_positives", "false_negatives",
                "potential_false_positives", "recall", "precision"}
        /\ DetectedIds = {} => validation_patterns.precision = 0
        /\ ManualIds = {} => validation_patterns.recall = 0

\* C12 witness: a detection file whose benches list no component, compared
\* with a clusters file without bench clusters: both denominators are 0
C12_Witness ==
    /\ ComparedWithFile
    /\ detection_file # <<>>
    /\ DetectedIds = {}
    /\ ManualIds = {}
    /\ validation_patterns.detected_components = 0
    /\ validation_patterns.manual_components = 0
    /\ validation_patterns.precision = 0
    /\ validation_patterns.recall = 0

\* ------------------------------------------- claims on the envelope features
\* all coordinates of the polyline are the same point
Degenerate(coords) == \A i \in 1..Len(coords) : coords[i] = coords[1]

\* the extent of the coordinates along one axis, in grid units
Extent(coords, axis) ==
    SetMax({ coords[i][axis] : i \in 1..Len(coords) })
        - SetMin({ coords[i][axis] : i \in 1..Len(coords) })

\* C13: every qualified raw record whose coordinates are all the same point
\* is retained, with envelope length 0, envelope width 0 and aspect ratio 0.
C13_DegenerateEnvelopeGivesZero ==
    Loaded =>
        \A i \in 1..Len(Qualified) :
            Degenerate(Qualified[i].geo_shape) =>
                \E n \in 1..Len(raw_data.rows) :
                    /\ raw_data.rows[n].objectid = Qualified[i].objectid
                    /\ raw_data.rows[n].envelope_length_m = 0
                    /\ raw_data.rows[n].envelope_width_m = 0
                    /\ raw_data.rows[n].aspect_ratio = 0

\* C13 witness: a component of two identical points is retained and joined
C13_Witness ==
    /\ Joined
    /\ \E n \in 1..Len(bench_components.rows) :
           /\ Degenerate(bench_components.rows[n].geo_shape)
           /\ bench_components.rows[n].point_count = 2
           /\ bench_components.rows[n].aspect_ratio = 0

\* C14: every retained component has 0 <= envelope width <= envelope length
\* and an aspect ratio from 0 to 1; the width is the shorter and the length
\* the longer extent of its coordinates.
C14_WidthWithinLength ==
    Loaded =>
        \A n \in 1..Len(raw_data.rows) :
            /\ Len(raw_data.rows[n].geo_shape) >= 2
            /\ 0 <= raw_data.rows[n].envelope_width_m
            /\ raw_data.rows[n].envelope_width_m <= raw_data.rows[n].envelope_length_m
            /\ 0 <= raw_data.rows[n].aspect_ratio
            /\ raw_data.rows[n].aspect_ratio <= FP
            /\ (Extent(raw_data.rows[n].geo_shape, 1) < Extent(raw_data.rows[n].geo_shape, 2)
                   \/ Extent(raw_data.rows[n].geo_shape, 2) < Extent(raw_data.rows[n].geo_shape, 1))
                => raw_data.rows[n].envelope_width_m < raw_data.rows[n].envelope_length_m

\* C14 witness: a retained five-point frame, twice as long as wide
C14_Witness ==
    /\ Joined
    /\ \E n \in 1..Len(bench_components.rows) :
           /\ bench_components.rows[n].point_count = 5
           /\ 0 < bench_components.rows[n].envelope_width_m
           /\ bench_components.rows[n].envelope_width_m
                  < bench_components.rows[n].envelope_length_m
           /\ 0 < bench_components.rows[n].aspect_ratio
           /\ bench_components.rows[n].aspect_ratio < FP

\* ------------------------------------------------- claims on the whole run
\* the joined frame and the rules as a second run computes them from the
\* two input files alone
FrameOfInputs ==
    JoinedFrame(DataFrame(SelectSeq(LoadedRecords(raw_file, clusters_file),
                                    LAMBDA r : Retained(r, clusters_file))),
                clusters_file)

RulesOfInputs == DetectionRules(FrameOfInputs, clusters_file)

\* C15: a call of validate_against_current_detection, with or without a
\* detection file, changes neither the loaded records, the loaded clusters,
\* the raw frame nor the joined frame, and generate_detection_rules returns
\* the rules of the input files whether or not the validation was called
\* before it.
C15_ValidationLeavesRulesAlone ==
    /\ [][(pc \in {"loaded", "joined"} /\ pc' \in {"loaded_compared", "compared"})
             => UNCHANGED <<raw_list, manual_clusters, raw_data, bench_components>>]_vars
    /\ [](pc \in {"rules_without_validation", "rules_after_validation"}
             => detection_rules = RulesOfInputs)

\* C15 witness: rules generated after a validation against a detection file
\* with an overlap, with a single-component and a clustering rule
C15_Witness ==
    /\ pc = "rules_after_validation"
    /\ detection_results_path = "present"
    /\ validation_patterns.true_positives > 0
    /\ DOMAIN detection_rules.single_component_benches # {}
    /\ DOMAIN detection_rules.multi_component_clustering # {}

\* C16: the second run on the same two files ends in the stage the first
\* run ended in, and every value it derives is the value the first run
\* derived: the pattern analysis, the spatial analysis, the canonical
\* dimensions, the validation baseline, the rule set with the order of each
\* rule's point count patterns, the converted results and the content of the
\* results file; whether the same analyzer runs again or a new interpreter
\* with another hash salt.
C16_SecondRunRepeatsFirst ==
    run = 2 =>
        /\ pc \in TerminalStages => pc = first_run.pc
        /\ PatternsMade => pattern_analysis = first_run.pattern_analysis
        /\ SpatialMade => spatial_analysis = first_run.spatial_analysis
        /\ CanonicalMade => canonical_dims = first_run.canonical_dims
        /\ pc \in {"validated", "rules", "done"} =>
               validation_patterns = first_run.validation_patterns
        /\ RulesMade => detection_rules = first_run.detection_rules
        /\ Saved => /\ results_clean = first_run.results_clean
                    /\ output_file = first_run.output_file

\* C16 witness: a second run, in an interpreter with another salt, has
\* written the results file with a clustering rule that lists two different
\* point count patterns
C16_Witness ==
    /\ run = 2
    /\ Saved
    /\ hash_seed # first_run.hash_seed
    /\ manual_clusters = clusters_file
    /\ \E n \in DOMAIN ClusteringRulesMade :
           /\ Len(ClusteringRulesMade[n].typical_point_patterns) >= 2
           /\ ClusteringRulesMade[n].sample_count >= 2

\* the steps of a run: load, join, the statistics, the rules, the
\* serialization, and the two ways a run ends early
StageOrder ==
    { <<"start", "loaded">>, <<"start", "load_failed">>,
      <<"loaded", "joined">>, <<"loaded", "error">>,
      <<"joined", "patterns">>, <<"patterns", "spatial">>,
      <<"spatial", "canonical">>, <<"canonical", "validated">>,
      <<"validated", "rules">>, <<"rules", "done">> }

\* a stage of the run fails: an input file is missing or malformed, or no
\* raw record is listed by a bench cluster
RunFails == io_failure # "none" \/ Qualified = <<>>

\* C17: every step of a run is the next stage in the order load, join,
\* statistics, rules, serialization; the results file is written by the
\* serialization step alone, after all other stages; a run in which a stage
\* fails never writes it.
C17_StagesInOrderFileLast ==
    /\ [][(<<pc, pc'>> \in StageOrder)]_vars
    /\ [][pc = "rules" \/ UNCHANGED output_file]_vars
    /\ [](pc # "done" => output_file = None)
    /\ [](RunFails => pc \in {"start", "loaded", "load_failed", "error"})

\* C17 witness: a finished run with a results file that holds statistics
C17_Witness ==
    /\ pc = "done"
    /\ ~RunFails
    /\ output_file = JsonDump(results_clean)
    /\ Len(pattern_analysis) >= 1
    /\ DOMAIN detection_rules.single_component_benches # {}

\* C18: every point count pattern of the clustering rule of component count
\* n has n entries: each cluster counted in the rule has n joined components.
C18_PatternLengthIsComponentCount ==
    RulesMade =>
        \A n \in DOMAIN ClusteringRulesMade :
            /\ \A p \in SeqToSet(ClusteringRulesMade[n].typical_point_patterns) :
                   Len(p) = n
            /\ \A k \in GroupClusters(n) :
                   Cardinality(JoinedIds(clusters_file[k])) \in {0, n}

\* the rows of the spatial analysis for the component count n
SpatialRows(n) == SelectSeq(spatial_analysis.rows, LAMBDA r : r.component_count = n)

\* C19: for every component count n of a multi-component bench cluster, the
\* clusters with a row in the spatial analysis are the clusters counted in
\* sample_count of the n-component clustering rule, the rule aggregates the
\* maximum distances of those rows, and each row holds the minimum and the
\* maximum over the pairwise centroid distances of the cluster's joined
\* components.
C19_SpatialAndRulesAgree ==
    RulesMade =>
        /\ \A i \in 1..Len(spatial_analysis.rows) :
               /\ spatial_analysis.rows[i].min_distance =
                      SetMin(PairwiseMeters(clusters_file[spatial_analysis.rows[i].cluster_id]))
               /\ spatial_analysis.rows[i].max_distance =
                      SetMax(PairwiseMeters(clusters_file[spatial_analysis.rows[i].cluster_id]))
        /\ \A n \in { clusters_file[k].component_count : k \in 1..Len(clusters_file) } :
               GroupClusters(n) # {} /\ n > 1 =>
                   IF n \in DOMAIN ClusteringRulesMade
                   THEN /\ ClusteringRulesMade[n].sample_count = Len(SpatialRows(n))
                        /\ Len(SpatialRows(n)) >= 1
                        /\ ClusteringRulesMade[n].max_distance_mean =
                               Mean(Column(SpatialRows(n), "max_distance"))
                   ELSE Len(SpatialRows(n)) = 0

====
